---- MODULE Spec2Model ----
(***************************************************************************)
(* KeySplitRoute (mcrouter/routes/KeySplitRoute.h): a route handle that    *)
(* lets one logical key live on several replicas of a pool.  The model     *)
(* follows one route() call on one constructed route object: the fan-out   *)
(* tasks handed to the fiber scheduler, the synchronous child call, the    *)
(* child's replies, the value returned to the caller, and what the caller  *)
(* does with its request and with the route object afterwards.  Further    *)
(* specifications add the introspection calls (traverse, routeName), the   *)
(* constructor with its assert()s, and a sequence of hosts that share one  *)
(* route configuration.                                                    *)
(*                                                                         *)
(* Keys are sequences of one-character strings.                            *)
(***************************************************************************)
EXTENDS Integers, Sequences, FiniteSets, TLC

\* ------------------------------------------------------------------ bounds
MaxReplicas == 3
MaxHostId == 3

\* ------------------------------------------------------- program constants
kMinReplicaCount == 2
kMaxReplicaCount == 1000
kMaxMcKeyLength == 255
kMemcacheReplicaSeparator == <<":", ":">>

RECURSIVE numDigitsBase10(_)
numDigitsBase10(n) == IF n < 10 THEN 1 ELSE 1 + numDigitsBase10(n \div 10)

kExtraKeySpaceNeeded ==
    Len(kMemcacheReplicaSeparator) + numDigitsBase10(kMaxReplicaCount - 1)

\* ------------------------------------------------------------------ values
Kinds == {"get", "lease-get", "lease-set", "set", "delete", "other"}
Replies == {"ok", "err"}
Pending == "pending"
TheChild == "child"
Dangling == "dangling"
NullChild == "null"
NoReq == [kind |-> "none", key |-> <<>>]
Freed == [kind |-> "freed", key |-> <<"?">>]
NoResult == "none"
NoId == -1
NoName == <<>>
NoCall == [kind |-> "none", key |-> <<>>, phys |-> {}]

Pad(n) == [i \in 1..n |-> "k"]

InputKeys ==
    { <<"f", "o", "o">>,
      <<"f", "o", "o", ":", ":", "2">>,
      Pad(kMaxMcKeyLength - kExtraKeySpaceNeeded),
      Pad(kMaxMcKeyLength - kExtraKeySpaceNeeded + 1),
      Pad(kMaxMcKeyLength) }

Requests == [kind : Kinds, key : InputKeys]

\* The single-target operation kinds, with replica counts up to the maximum.
WideReplicaCounts == {kMinReplicaCount, 12, 101, kMaxReplicaCount}
WideHostIds == {0, 1, 11, 100, 999, 1999, 2500}
WideKinds == {"get", "lease-get", "lease-set", "other"}
WideRequests == [kind : WideKinds, key : InputKeys]

\* Constructor arguments at and just outside the documented limits.
ConstructCounts ==
    {kMinReplicaCount - 1, kMinReplicaCount, kMaxReplicaCount,
     kMaxReplicaCount + 1}
ConstructChildren == {TheChild, NullChild}
ConstructHostIds == {0, 1, 2001}

\* The logical keys routed when several hosts are followed.
HostKeys ==
    { <<"f", "o", "o">>,
      <<"f", "o", "o", ":", ":", "2">>,
      Pad(kMaxMcKeyLength - kExtraKeySpaceNeeded),
      Pad(kMaxMcKeyLength - kExtraKeySpaceNeeded + 1) }
HostRequests == [kind : Kinds, key : HostKeys]

\* ------------------------------------------------------------------- state
VARIABLES
    child_,      \* the route's child target (shared_ptr)
    replicas_,   \* configured replica count
    allSync_,    \* whether sets go to every replica
    hostid,      \* globals::hostid() of this process
    routeAlive,  \* the route object has not been destroyed
    pc,          \* caller: "idle", "awaiting" (in the child call), "returned";
                 \* "unbuilt" before the constructor ran, "aborted" after a
                 \* failed assert
    req,         \* the caller's request object (Freed once released)
    routed,      \* the request as it was when route() was called
    tasks,       \* fiber tasks added and not yet run
    spawned,     \* (replica index, key) in the order addTask was called
    calls,       \* child->route calls made so far, in order; freed tells
                 \* whether the caller's request was gone at call time
    result,      \* the reply route() returned to the caller
    seen,        \* the targets the last traverse() handed to the traverser
    named,       \* the last routeName() result (NoName before the first)
    earlier      \* the last request routed to completion by another host of
                 \* the same configuration, with the keys the child received

vars == <<child_, replicas_, allSync_, hostid, routeAlive, pc, req, routed,
          tasks, spawned, calls, result, seen, named, earlier>>

intro == <<seen, named>>

config == <<child_, replicas_, allSync_, hostid>>

\* --------------------------------------------------------- pure operations
Digit(d) == <<"0", "1", "2", "3", "4", "5", "6", "7", "8", "9">>[d + 1]

\* folly::to<std::string> of an unsigned integer: its decimal digits.
RECURSIVE toDecimal(_)
toDecimal(n) ==
    IF n < 10 THEN <<Digit(n)>>
    ELSE toDecimal(n \div 10) \o <<Digit(n % 10)>>

\* getReplicaId without the reduction modulo the replica count.
getReplicaIdRaw == hostid

\* getReplicaId reduced by the largest replica count, not the configured one.
getReplicaIdModMax == hostid % kMaxReplicaCount

getReplicaId == hostid % replicas_

\* canAugmentRequest comparing the bare key length with the limit.
canAugmentRequestNoReserve(r) == Len(r.key) <= kMaxMcKeyLength

\* canAugmentRequest reserving the digits of the assigned replica's index
\* instead of those of the largest possible index.
canAugmentRequestActualWidth(r) ==
    Len(r.key) + Len(kMemcacheReplicaSeparator)
        + numDigitsBase10(getReplicaId) <= kMaxMcKeyLength

canAugmentRequest(r) == Len(r.key) + kExtraKeySpaceNeeded <= kMaxMcKeyLength

\* shouldAugmentRequest with the first two replicas left unaugmented.
shouldAugmentRequestAboveOne(replicaId) == replicaId > 1

shouldAugmentRequest(replicaId) == replicaId > 0

\* copyAndAugment building the new key from separator and index only.
copyAndAugmentWithoutKey(originalReq, replicaId) ==
    [originalReq EXCEPT
        !.key = kMemcacheReplicaSeparator \o toDecimal(replicaId)]

copyAndAugment(originalReq, replicaId) ==
    [originalReq EXCEPT
        !.key = originalReq.key \o kMemcacheReplicaSeparator
                    \o toDecimal(replicaId)]

\* A routing decision: the tasks handed to addTask, in order, and the
\* request of the synchronous child_->route call with the replica index it
\* was built for.
routeOne(r, replicaId) ==
    [spawn |-> <<>>,
     id    |-> replicaId,
     sync  |-> IF shouldAugmentRequest(replicaId)
               THEN copyAndAugment(r, replicaId)
               ELSE r]

\* routeAll's loop augmenting every copy with the assigned replica's index
\* instead of the loop index.
RECURSIVE routeAllLoopAssignedId(_, _, _)
routeAllLoopAssignedId(r, replicaId, id) ==
    IF id >= replicas_ THEN <<>>
    ELSE IF id = replicaId THEN routeAllLoopAssignedId(r, replicaId, id + 1)
    ELSE <<[id |-> id,
            child |-> child_,
            reqReplica |-> IF shouldAugmentRequest(id)
                           THEN copyAndAugment(r, replicaId)
                           ELSE r]>>
         \o routeAllLoopAssignedId(r, replicaId, id + 1)

\* routeAll's loop adding the tasks from the highest index down.
RECURSIVE routeAllLoopDescending(_, _, _)
routeAllLoopDescending(r, replicaId, id) ==
    IF id >= replicas_ THEN <<>>
    ELSE IF id = replicaId THEN routeAllLoopDescending(r, replicaId, id + 1)
    ELSE routeAllLoopDescending(r, replicaId, id + 1)
         \o <<[id |-> id,
                child |-> child_,
                reqReplica |-> IF shouldAugmentRequest(id)
                               THEN copyAndAugment(r, id)
                               ELSE r]>>

\* The for loop of routeAll, from index id on.
RECURSIVE routeAllLoop(_, _, _)
routeAllLoop(r, replicaId, id) ==
    IF id >= replicas_ THEN <<>>
    ELSE IF id = replicaId THEN routeAllLoop(r, replicaId, id + 1)
    ELSE <<[id |-> id,
            child |-> child_,
            reqReplica |-> IF shouldAugmentRequest(id)
                           THEN copyAndAugment(r, id)
                           ELSE r]>>
         \o routeAllLoop(r, replicaId, id + 1)

routeAll(r, replicaId) ==
    [spawn |-> routeAllLoop(r, replicaId, 0),
     id    |-> routeOne(r, replicaId).id,
     sync  |-> routeOne(r, replicaId).sync]

\* child_->route(req) with the request as it came; no replica index is used.
direct(r) == [spawn |-> <<>>, id |-> NoId, sync |-> r]

routeGet(r) ==
    IF ~canAugmentRequest(r) THEN direct(r)
    ELSE routeOne(r, getReplicaId)

\* routeSet with the allSync_ test left out.
routeSetNeverAll(r) ==
    IF ~canAugmentRequest(r) THEN direct(r)
    ELSE routeOne(r, getReplicaId)

routeSet(r) ==
    IF ~canAugmentRequest(r) THEN direct(r)
    ELSE IF allSync_ THEN routeAll(r, getReplicaId)
    ELSE routeOne(r, getReplicaId)

\* routeDelete made conditional on allSync_, as sets are.
routeDeleteIfAllSync(r) ==
    IF ~canAugmentRequest(r) THEN direct(r)
    ELSE IF allSync_ THEN routeAll(r, getReplicaId)
    ELSE routeOne(r, getReplicaId)

routeDelete(r) ==
    IF ~canAugmentRequest(r) THEN direct(r)
    ELSE routeAll(r, getReplicaId)

routeFallback(r) == routeOne(r, getReplicaId)

route(r) ==
    CASE r.kind \in {"get", "lease-get", "lease-set"} -> routeGet(r)
      [] r.kind = "set" -> routeSet(r)
      [] r.kind = "delete" -> routeDelete(r)
      [] OTHER -> routeFallback(r)

\* traverse reporting every replica that route() would contact in a fan-out.
traverseEveryReplica(r) ==
    [id \in 1..replicas_ |->
        [child |-> child_, id |-> id - 1, kind |-> r.kind,
         key |-> IF shouldAugmentRequest(id - 1)
                 THEN copyAndAugment(r, id - 1).key
                 ELSE r.key]]

\* traverse(req, t): the (child, request) targets handed to the traverser.
traverse(r) ==
    IF shouldAugmentRequest(getReplicaId)
    THEN <<[child |-> child_, id |-> getReplicaId, kind |-> r.kind,
            key |-> copyAndAugment(r, getReplicaId).key]>>
    ELSE <<[child |-> child_, id |-> getReplicaId, kind |-> r.kind,
            key |-> r.key]>>

\* routeName(): the pieces sformat joins into
\* "keysplit|replicas={}|all-sync={}|replicaId={}".
routeName ==
    <<"keysplit|replicas=", toDecimal(replicas_),
      "|all-sync=", IF allSync_ THEN "true" ELSE "false",
      "|replicaId=", toDecimal(getReplicaId)>>

\* A task that captured the caller's request by reference and builds its
\* copy only when it runs.
taskRequestByRef(t) ==
    IF shouldAugmentRequest(t.id) THEN copyAndAugment(req, t.id) ELSE req

\* The request a fiber task hands to the child: the copy it captured.
taskRequest(t) == t.reqReplica

\* A task that captured the route object and reads child_ when it runs.
taskChildThroughThis(t) == IF routeAlive THEN child_ ELSE Dangling

\* The child a fiber task calls: the shared_ptr it captured.
taskChild(t) == t.child

\* The synchronous call is always the first call of the log.
syncReply(cs) == cs[1].reply

\* routeAll collecting the replies known so far and returning the worst.
routeReturnWorst(cs) ==
    IF \E j \in 1..Len(cs) : cs[j].reply = "err" THEN "err" ELSE syncReply(cs)

\* What route() returns: the reply of routeOne's child call.
routeReturn(cs) == syncReply(cs)

\* The synchronous caller resumes as soon as its child call has replied.
canReturn == syncReply(calls) # Pending

Range(s) == {s[i] : i \in 1..Len(s)}

\* ----------------------------------------------------------------- actions
InitWith(counts, hosts) ==
    /\ child_ = TheChild
    /\ replicas_ \in counts
    /\ allSync_ \in BOOLEAN
    /\ hostid \in hosts
    /\ routeAlive = TRUE
    /\ pc = "idle"
    /\ req = NoReq
    /\ routed = NoReq
    /\ tasks = {}
    /\ spawned = <<>>
    /\ calls = <<>>
    /\ result = NoResult
    /\ seen = <<>>
    /\ named = NoName
    /\ earlier = NoCall

Init == InitWith(kMinReplicaCount..MaxReplicas, 0..MaxHostId)

\* route(req) up to the point where the synchronous child call is in flight.
Route(r) ==
    /\ pc = "idle"
    /\ LET d == route(r) IN
        /\ tasks' = Range(d.spawn)
        /\ spawned' = [i \in 1..Len(d.spawn) |->
                          [id |-> d.spawn[i].id,
                           key |-> d.spawn[i].reqReplica.key]]
        /\ calls' = <<[via |-> "sync", id |-> d.id, child |-> child_,
                       kind |-> d.sync.kind, key |-> d.sync.key,
                       freed |-> FALSE, reply |-> Pending]>>
    /\ pc' = "awaiting"
    /\ req' = r
    /\ routed' = r
    /\ UNCHANGED <<config, intro, earlier, routeAlive, result>>

\* A scheduler that starts the tasks strictly in the order they were added.
RunTaskInSpawnOrder(t) ==
    /\ t \in tasks
    /\ \A u \in tasks : t.id <= u.id
    /\ tasks' = tasks \ {t}
    /\ calls' = Append(calls,
                   [via |-> "task", id |-> t.id, child |-> t.child,
                    kind |-> t.reqReplica.kind,
                    key |-> t.reqReplica.key,
                    freed |-> (req = Freed), reply |-> Pending])
    /\ UNCHANGED <<config, intro, earlier, routeAlive, pc, req, routed, spawned, result>>

\* The scheduler runs one fiber task: child->route(reqReplica) is called.
RunTask(t) ==
    /\ t \in tasks
    /\ tasks' = tasks \ {t}
    /\ calls' = Append(calls,
                   [via |-> "task", id |-> t.id, child |-> taskChild(t),
                    kind |-> taskRequest(t).kind,
                    key |-> taskRequest(t).key,
                    freed |-> (req = Freed), reply |-> Pending])
    /\ UNCHANGED <<config, intro, earlier, routeAlive, pc, req, routed, spawned, result>>

\* The child answers one of the calls in flight.
ChildReply(i, rep) ==
    /\ i \in 1..Len(calls)
    /\ calls[i].reply = Pending
    /\ calls' = [calls EXCEPT ![i].reply = rep]
    /\ UNCHANGED <<config, intro, earlier, routeAlive, pc, req, routed, tasks, spawned, result>>

\* route() returns to its caller.
RouteReturn ==
    /\ pc = "awaiting"
    /\ canReturn
    /\ result' = routeReturn(calls)
    /\ pc' = "returned"
    /\ UNCHANGED <<config, intro, earlier, routeAlive, req, routed, tasks, spawned, calls>>

\* After route() has returned the caller destroys its request.
ReleaseRequest ==
    /\ pc = "returned"
    /\ req # Freed
    /\ req' = Freed
    /\ UNCHANGED <<config, intro, earlier, routeAlive, pc, routed, tasks, spawned, calls,
                   result>>

\* After route() has returned the route object is destroyed (reconfiguration).
DestroyRoute ==
    /\ pc = "returned"
    /\ routeAlive
    /\ routeAlive' = FALSE
    /\ UNCHANGED <<config, intro, earlier, pc, req, routed, tasks, spawned, calls, result>>

\* traverse(req, t) on the request the caller holds.
Traverse ==
    /\ pc # "idle"
    /\ req # Freed
    /\ routeAlive
    /\ seen' = traverse(req)
    /\ UNCHANGED <<config, named, earlier, routeAlive, pc, req, routed, tasks, spawned,
                   calls, result>>

\* routeName() on the route object.
RouteName ==
    /\ routeAlive
    /\ named' = routeName
    /\ UNCHANGED <<config, seen, earlier, routeAlive, pc, req, routed, tasks, spawned,
                   calls, result>>

Next ==
    \/ \E r \in Requests : Route(r)
    \/ \E t \in tasks : RunTask(t)
    \/ \E i \in 1..Len(calls), rep \in Replies : ChildReply(i, rep)
    \/ RouteReturn
    \/ ReleaseRequest
    \/ DestroyRoute

Spec == Init /\ [][Next]_vars

\* Routing together with the introspection calls, every call succeeding.
NextIntro ==
    \/ \E r \in Requests : Route(r)
    \/ \E t \in tasks : RunTask(t)
    \/ \E i \in 1..Len(calls) : ChildReply(i, "ok")
    \/ RouteReturn
    \/ Traverse
    \/ RouteName

SpecIntro == Init /\ [][NextIntro]_vars

\* The fiber scheduler runs every task it was given.
SpecFair == Spec /\ WF_vars(\E t \in tasks : RunTask(t))

\* Single-target operation kinds under replica counts up to kMaxReplicaCount.
InitWide == InitWith(WideReplicaCounts, WideHostIds)

NextWide ==
    \/ \E r \in WideRequests : Route(r)
    \/ \E i \in 1..Len(calls), rep \in Replies : ChildReply(i, rep)
    \/ RouteReturn
    \/ ReleaseRequest
    \/ DestroyRoute
    \/ Traverse
    \/ RouteName

SpecWide == InitWide /\ [][NextWide]_vars

\* The request in progress has been routed to completion (route() returned,
\* every task called the child); the model moves on to the process on host h,
\* which has the same route configuration.
NextHost(h) ==
    /\ pc = "returned"
    /\ tasks = {}
    /\ earlier' = [kind |-> routed.kind, key |-> routed.key,
                   phys |-> {calls[j].key : j \in 1..Len(calls)}]
    /\ hostid' = h
    /\ routeAlive' = TRUE
    /\ pc' = "idle"
    /\ req' = NoReq
    /\ routed' = NoReq
    /\ spawned' = <<>>
    /\ calls' = <<>>
    /\ result' = NoResult
    /\ seen' = <<>>
    /\ UNCHANGED <<child_, replicas_, allSync_, tasks, named>>

NextHosts ==
    \/ \E r \in HostRequests : Route(r)
    \/ \E t \in tasks : RunTask(t)
    \/ \E i \in 1..Len(calls) : ChildReply(i, "ok")
    \/ RouteReturn
    \/ \E h \in 0..MaxHostId : NextHost(h)

SpecHosts == Init /\ [][NextHosts]_vars

\* Before the constructor has run.
InitUnbuilt ==
    /\ child_ = NullChild
    /\ replicas_ = 0
    /\ allSync_ = FALSE
    /\ hostid \in ConstructHostIds
    /\ routeAlive = FALSE
    /\ pc = "unbuilt"
    /\ req = NoReq
    /\ routed = NoReq
    /\ tasks = {}
    /\ spawned = <<>>
    /\ calls = <<>>
    /\ result = NoResult
    /\ seen = <<>>
    /\ named = NoName
    /\ earlier = NoCall

\* KeySplitRoute(child, replicas, allSync).  The three checks are assert()s:
\* a build without NDEBUG aborts when one fails, a build with NDEBUG compiles
\* them out and initialises the members whatever the arguments are.
Construct(child, replicas, allSync, ndebug) ==
    /\ pc = "unbuilt"
    /\ \/ /\ ~ndebug
          /\ \/ child = NullChild
             \/ ~(replicas >= kMinReplicaCount)
             \/ ~(replicas <= kMaxReplicaCount)
          /\ pc' = "aborted"
          /\ UNCHANGED <<config, routeAlive>>
       \/ /\ \/ ndebug
             \/ /\ child # NullChild
                /\ replicas >= kMinReplicaCount
                /\ replicas <= kMaxReplicaCount
          /\ child_' = child
          /\ replicas_' = replicas
          /\ allSync_' = allSync
          /\ routeAlive' = TRUE
          /\ pc' = "idle"
          /\ UNCHANGED hostid
    /\ UNCHANGED <<intro, earlier, req, routed, tasks, spawned, calls, result>>

NextConstruct ==
    \/ \E child \in ConstructChildren, replicas \in ConstructCounts,
          allSync \in BOOLEAN, ndebug \in BOOLEAN :
            Construct(child, replicas, allSync, ndebug)
    \/ NextWide

SpecConstruct == InitUnbuilt /\ [][NextConstruct]_vars

TypeOK ==
    /\ pc \notin {"unbuilt", "aborted"}
        => replicas_ \in (kMinReplicaCount - 1)..(kMaxReplicaCount + 1)
    /\ pc \in {"unbuilt", "aborted", "idle", "awaiting", "returned"}
    /\ result \in Replies \cup {NoResult}

\* ------------------------------------------------- vocabulary of the claims
Routed == pc # "idle"

\* The key is within the augmentation budget: len(key) + 2 + 3 <= 255.
InBudget(key) == Len(key) + 2 + 3 <= 255

Assigned == hostid % replicas_

DigitChars == {"0", "1", "2", "3", "4", "5", "6", "7", "8", "9"}

DigitValue(c) ==
    CASE c = "0" -> 0 [] c = "1" -> 1 [] c = "2" -> 2 [] c = "3" -> 3
      [] c = "4" -> 4 [] c = "5" -> 5 [] c = "6" -> 6 [] c = "7" -> 7
      [] c = "8" -> 8 [] c = "9" -> 9

\* The number a string of decimal digits denotes.
RECURSIVE DecimalValue(_)
DecimalValue(s) ==
    IF s = <<>> THEN 0
    ELSE 10 * DecimalValue(SubSeq(s, 1, Len(s) - 1)) + DigitValue(s[Len(s)])

\* k is the physical key of replica id for the logical key orig: orig itself
\* for replica 0, orig "::" <decimal id, no leading zero> otherwise.
IsKeyFor(k, orig, id) ==
    IF id = 0 THEN k = orig
    ELSE /\ Len(k) > Len(orig) + 2
         /\ SubSeq(k, 1, Len(orig)) = orig
         /\ SubSeq(k, Len(orig) + 1, Len(orig) + 2) = <<":", ":">>
         /\ LET d == SubSeq(k, Len(orig) + 3, Len(k)) IN
                /\ \A i \in 1..Len(d) : d[i] \in DigitChars
                /\ d[1] # "0"
                /\ DecimalValue(d) = id

CallsFor(via, id) ==
    {j \in 1..Len(calls) :
        calls[j].via = via /\ IsKeyFor(calls[j].key, routed.key, id)}

PendingFor(id) ==
    {t \in tasks : IsKeyFor(t.reqReplica.key, routed.key, id)}

\* Every replica index is contacted exactly once: the assigned one by the
\* synchronous call, every other one by one task (run or still to run).
FanOutExact ==
    /\ Len(calls) + Cardinality(tasks) = replicas_
    /\ Len(spawned) = replicas_ - 1
    /\ \A id \in 0..(replicas_ - 1) :
          IF id = Assigned
          THEN /\ Cardinality(CallsFor("sync", id)) = 1
               /\ CallsFor("task", id) = {}
               /\ PendingFor(id) = {}
          ELSE /\ CallsFor("sync", id) = {}
               /\ Cardinality(CallsFor("task", id))
                    + Cardinality(PendingFor(id)) = 1

\* Exactly one child call, the synchronous one, and no task.
SingleCall ==
    /\ Len(calls) = 1
    /\ calls[1].via = "sync"
    /\ tasks = {}
    /\ spawned = <<>>

FanOutDone == Routed /\ tasks = {} /\ Len(calls) = replicas_

\* -------------------------------------------------------------------- C1
\* C1: a delete whose key is within the augmentation budget contacts every
\* replica index in [0, replicaCount) exactly once, whatever allSyncEnabled
\* is: the assigned replica by the synchronous call and each other replica
\* by exactly one background task.
C1_DeleteReachesAll ==
    (Routed /\ routed.kind = "delete" /\ InBudget(routed.key))
        => FanOutExact

C1_Witness ==
    /\ FanOutDone
    /\ routed.kind = "delete"
    /\ InBudget(routed.key)
    /\ ~allSync_
    /\ replicas_ > 2
    /\ Assigned > 0

\* -------------------------------------------------------------------- C2
\* C2: a set whose key is within the augmentation budget fans out to all
\* replicas iff allSyncEnabled: with it every replica index is contacted
\* exactly once; without it there is exactly one child call, to the assigned
\* replica, and no background task.
C2_SetFansOutIffAllSync ==
    (Routed /\ routed.kind = "set" /\ InBudget(routed.key))
        => IF allSync_
           THEN FanOutExact
           ELSE SingleCall /\ IsKeyFor(calls[1].key, routed.key, Assigned)

C2_Witness ==
    /\ FanOutDone
    /\ routed.kind = "set"
    /\ InBudget(routed.key)
    /\ allSync_
    /\ replicas_ > 2

\* -------------------------------------------------------------------- C3
SingleKinds == Kinds \ {"set", "delete"}

\* C3 as stated: for get, lease-get, lease-set and every kind other than set
\* and delete, route() makes exactly one child call, addressed to the
\* assigned replica (hostIdentity mod replicaCount), and spawns no task.
C3_AlwaysAssignedReplica ==
    (Routed /\ routed.kind \in SingleKinds)
        => /\ SingleCall
           /\ calls[1].id = Assigned
           /\ IsKeyFor(calls[1].key, routed.key, Assigned)

\* C3 amended: for these kinds route() makes exactly one child call and
\* spawns no task; the call is addressed to the assigned replica, except
\* that a get, lease-get or lease-set whose key exceeds the augmentation
\* budget is forwarded with its original key and no replica index.
C3_OneCallAssignedUnlessOversized ==
    (Routed /\ routed.kind \in SingleKinds)
        => /\ SingleCall
           /\ IF routed.kind \in {"get", "lease-get", "lease-set"}
                    /\ ~InBudget(routed.key)
              THEN calls[1].id = NoId /\ calls[1].key = routed.key
              ELSE /\ calls[1].id = Assigned
                   /\ IsKeyFor(calls[1].key, routed.key, Assigned)

C3_Witness ==
    /\ pc = "returned"
    /\ routed.kind = "lease-get"
    /\ InBudget(routed.key)
    /\ replicas_ = kMaxReplicaCount
    /\ Assigned >= 100
    /\ Len(calls[1].key) = Len(routed.key) + 5

\* -------------------------------------------------------------------- C4
\* C4: for a key that exceeds the augmentation budget, every child call
\* that route() makes carries the untouched original key, for every
\* operation kind and every assigned replica index.
C4_OversizedKeyUntouched ==
    (Routed /\ ~InBudget(routed.key))
        => /\ \A j \in 1..Len(calls) : calls[j].key = routed.key
           /\ \A t \in tasks : t.reqReplica.key = routed.key

\* -------------------------------------------------------------------- C5
\* C5: for every request whose original key is at most 255 bytes, every key
\* handed to the child, by the synchronous call or by a background task, is
\* at most 255 bytes long.
C5_ChildKeyWithinLimit ==
    (Routed /\ Len(routed.key) <= 255)
        => /\ \A j \in 1..Len(calls) : Len(calls[j].key) <= 255
           /\ \A t \in tasks : Len(t.reqReplica.key) <= 255

\* -------------------------------------------------------------------- C6
TaskCalls == {j \in 1..Len(calls) : calls[j].via = "task"}

\* C6: the value route() returns is exactly the reply of the synchronous
\* child call for the assigned replica, whatever the background tasks do or
\* have done (succeeded, failed, not yet run).
C6_ReturnsSyncReply ==
    (pc = "returned")
        => /\ calls[1].via = "sync"
           /\ result \in Replies
           /\ result = calls[1].reply

C6_Witness ==
    /\ pc = "returned"
    /\ result = "ok"
    /\ tasks # {}
    /\ \E j \in TaskCalls : calls[j].reply = "err"

\* -------------------------------------------------------------------- C7
\* C7: for a key within the augmentation budget, the key carried by the
\* child call for replica index id is the original key when id = 0 and the
\* original key + "::" + decimal(id) when id > 0, in the synchronous call
\* and in every background task.
C7_KeyPerReplica ==
    (Routed /\ InBudget(routed.key))
        => /\ \A j \in 1..Len(calls) :
                /\ calls[j].id \in 0..(replicas_ - 1)
                /\ IsKeyFor(calls[j].key, routed.key, calls[j].id)
           /\ \A t \in tasks :
                /\ t.id \in 0..(replicas_ - 1)
                /\ IsKeyFor(t.reqReplica.key, routed.key, t.id)

C7_Witness ==
    /\ FanOutDone
    /\ InBudget(routed.key)
    /\ replicas_ > 2
    /\ \E j \in TaskCalls : calls[j].id = 0 /\ calls[j].key = routed.key
    /\ \E j \in TaskCalls : calls[j].id > 0 /\ calls[j].key # routed.key
    /\ calls[1].id > 0

\* -------------------------------------------------------------------- C8
FansOut == routed.kind = "delete" \/ (routed.kind = "set" /\ allSync_)

\* C8: in a fan-out (delete, or set with allSync) of a key within the
\* augmentation budget no two replica indices receive the same key.
C8_FanOutKeysDistinct ==
    (Routed /\ FansOut /\ InBudget(routed.key))
        => /\ \A i, j \in 1..Len(calls) :
                i # j => calls[i].key # calls[j].key
           /\ \A t, u \in tasks :
                t # u => t.reqReplica.key # u.reqReplica.key
           /\ \A j \in 1..Len(calls) : \A t \in tasks :
                calls[j].key # t.reqReplica.key

C8_Witness ==
    /\ FanOutDone
    /\ FansOut
    /\ InBudget(routed.key)
    /\ replicas_ > 2
    /\ Assigned = 1

\* -------------------------------------------------------------------- C9
\* C9: each background task delivers to the child exactly the request it
\* captured when it was spawned, also when it runs after route() has
\* returned and the caller's request has been released; a task never reads
\* the caller's request.
C9_TaskDeliversCapturedRequest ==
    /\ \A j \in TaskCalls :
          /\ calls[j].kind = routed.kind
          /\ \E i \in 1..Len(spawned) :
                spawned[i].id = calls[j].id /\ spawned[i].key = calls[j].key
    /\ \A t \in tasks :
          \E i \in 1..Len(spawned) :
                spawned[i].id = t.id /\ spawned[i].key = t.reqReplica.key

C9_Witness ==
    /\ req = Freed
    /\ \E j \in TaskCalls : calls[j].freed /\ calls[j].id > 0
    /\ \E j \in TaskCalls : calls[j].freed /\ calls[j].id = 0

\* ------------------------------------------------------------------- C10
TaskPending(id) == \E t \in tasks : t.id = id

TaskCalled(id) ==
    \E j \in TaskCalls : calls[j].id = id /\ calls[j].child = TheChild

\* C10: fan-out tasks are fire-and-forget: route() can return as soon as
\* the synchronous call has replied, whatever tasks are still to run; no
\* task is ever cancelled; and under fair scheduling every spawned task
\* eventually performs its one call of the child, also after route() has
\* returned and the route object is gone.
C10_FireAndForget ==
    /\ []((pc = "awaiting" /\ calls[1].reply # Pending) => ENABLED RouteReturn)
    /\ [][\A t \in tasks : t \in tasks' \/ TaskCalled(t.id)']_vars
    /\ \A id \in 0..(MaxReplicas - 1) : TaskPending(id) ~> TaskCalled(id)

C10_Witness ==
    /\ pc = "returned"
    /\ ~routeAlive
    /\ tasks = {}
    /\ Cardinality(TaskCalls) > 1
    /\ \A j \in TaskCalls : calls[j].freed /\ calls[j].child = TheChild

C12_TraverseKeyIsRouteKey ==
    (Routed /\ seen # <<>>)
        => \A i \in 1..Len(seen) : seen[i].key = calls[1].key

\* ------------------------------------------------------------------- C13
\* C13: traverse() reports exactly one (child, request) target, the one for
\* the assigned replica, for every operation kind, also for delete and set
\* with allSync that route() fans out; it makes no child call and spawns no
\* background task.
C13_TraverseSingleTargetNoEffect ==
    /\ [](seen # <<>> =>
            /\ Len(seen) = 1
            /\ seen[1].child = TheChild
            /\ seen[1].kind = routed.kind
            /\ IsKeyFor(seen[1].key, routed.key, Assigned))
    /\ [][seen' # seen =>
            /\ calls' = calls
            /\ tasks' = tasks
            /\ spawned' = spawned
            /\ result' = result]_vars

C13_Witness ==
    /\ seen # <<>>
    /\ routed.kind = "delete"
    /\ InBudget(routed.key)
    /\ replicas_ > 2
    /\ Assigned > 0
    /\ Len(spawned) = replicas_ - 1
    /\ tasks # {}

C15_NoCallOnInvalidRoute ==
    (calls # <<>> \/ seen # <<>>)
        => /\ replicas_ >= 2
           /\ replicas_ <= 1000
           /\ child_ # NullChild

\* ------------------------------------------------------------------- C16
\* C16: when the key exceeds the augmentation budget, route() makes exactly
\* one synchronous child call and spawns no background task, for every
\* operation kind, also for delete and for set with allSyncEnabled.
C16_OversizedNeverFansOut ==
    (Routed /\ ~InBudget(routed.key)) => SingleCall

C16_Witness ==
    /\ pc = "returned"
    /\ routed.kind = "set"
    /\ allSync_
    /\ replicas_ > 2
    /\ Len(routed.key) = 251
    /\ Len(calls) = 1

\* ------------------------------------------------------------------- C17
EligibilityKinds == {"get", "lease-get", "lease-set", "set", "delete"}

\* C17: eligibility for augmentation depends only on the key length and the
\* fixed maximum replica count: route() treats a key as eligible iff
\* len(key) + len("::") + digitCount(999) <= 255, that is len(key) <= 250,
\* whatever the host identity and the configured replica count are.
C17_EligibilityByLengthOnly ==
    (Routed /\ routed.kind \in EligibilityKinds)
        => /\ (calls[1].id # NoId) <=> (Len(routed.key) + 2 + 3 <= 255)
           /\ (calls[1].id # NoId) <=> (Len(routed.key) <= 250)

C17_Witness ==
    /\ pc = "returned"
    /\ routed.kind = "lease-set"
    /\ Len(routed.key) = 251
    /\ replicas_ = 12
    /\ Assigned = 1
    /\ calls[1].id = NoId
    /\ calls[1].key = routed.key

\* ------------------------------------------------------------------- C18
\* The keys the child has received or will receive for the current request.
CurrentKeys ==
    {calls[j].key : j \in 1..Len(calls)}
        \cup {t.reqReplica.key : t \in tasks}

\* C18: for any logical key and a fixed replicaCount, the physical keys
\* contacted by one delete issued from any host include every physical key
\* that an operation of any kind issued from any host with the same
\* configuration targets for that logical key.
C18_DeleteCoversEveryTarget ==
    (Routed /\ earlier.kind = "delete" /\ earlier.key = routed.key)
        => CurrentKeys \subseteq earlier.phys

\* ------------------------------------------------------------------- C19
\* C19: in a fan-out all replicaCount - 1 background tasks have been
\* spawned, in increasing replica index order, by the time the synchronous
\* child call is in flight, so every other replica has its task (run or
\* still to run) whatever the synchronous call replies, an error included.
C19_SpawnedBeforeSyncCall ==
    (Routed /\ FansOut /\ InBudget(routed.key))
        => /\ Len(spawned) = replicas_ - 1
           /\ \A i, j \in 1..Len(spawned) :
                i < j => spawned[i].id < spawned[j].id
           /\ {spawned[i].id : i \in 1..Len(spawned)}
                = (0..(replicas_ - 1)) \ {Assigned}
           /\ \A i \in 1..Len(spawned) :
                \/ \E t \in tasks : t.id = spawned[i].id
                \/ \E j \in TaskCalls : calls[j].id = spawned[i].id

C19_Witness ==
    /\ pc = "returned"
    /\ result = "err"
    /\ FansOut
    /\ InBudget(routed.key)
    /\ replicas_ > 2
    /\ Assigned = 0
    /\ FanOutDone
    /\ \A j \in TaskCalls : calls[j].reply = "ok"

\* ------------------------------------------------------------------- C20
\* C20 as stated: physical keys of distinct logical keys never collide: for
\* k1 # k2 and any replica indices the key sent for (k1, r1) differs from
\* the key sent for (k2, r2).
C20_DistinctKeysNeverCollide ==
    (Routed /\ earlier # NoCall /\ earlier.key # routed.key)
        => CurrentKeys \cap earlier.phys = {}

\* b is a followed by "::" and the decimal form of a replica index in
\* [1, replicaCount).
ReplicaSuffixed(a, b) == \E id \in 1..(replicas_ - 1) : IsKeyFor(b, a, id)

\* C20 amended: physical keys of distinct logical keys k1 # k2 never
\* collide, unless one logical key is the other followed by "::" and the
\* decimal form of a replica index in [1, replicaCount).
C20_DistinctKeysCollideOnlyBySuffix ==
    (/\ Routed
     /\ earlier # NoCall
     /\ earlier.key # routed.key
     /\ ~ReplicaSuffixed(earlier.key, routed.key)
     /\ ~ReplicaSuffixed(routed.key, earlier.key))
        => CurrentKeys \cap earlier.phys = {}

C20_Witness ==
    /\ FanOutDone
    /\ replicas_ = 2
    /\ routed.kind = "delete"
    /\ earlier.kind = "delete"
    /\ routed.key = <<"f", "o", "o">>
    /\ earlier.key = <<"f", "o", "o", ":", ":", "2">>
    /\ Cardinality(earlier.phys) = 2
    /\ Cardinality(CurrentKeys) = 2
====
